---- MODULE Spec2Model ----
(***************************************************************************)
(* Model of src/resultsview/common.ts: the rendering of a batch of        *)
(* statement results into an HTML fragment (getResultsTables and its      *)
(* generators), the assembling of the document (generateResultsHtml) and  *)
(* disposeAll.                                                             *)
(*                                                                         *)
(* HTML text is a sequence of tokens <<tag, class, text>>, one token per  *)
(* piece of markup the code writes; the texts the code interpolates are   *)
(* carried as strings.  An optional property of a JavaScript object is    *)
(* <<>> when it is undefined and <<v>> when it has the value v.           *)
(***************************************************************************)
EXTENDS Integers, Sequences, FiniteSets, TLC

VARIABLES results, out, now, document, nonces, disposables, held, disposed, pc

vars == <<results, out, now, document, nonces, disposables, held, disposed, pc>>

renderVars == <<results, out>>
htmlVars == <<now, document, nonces>>
disposeVars == <<disposables, held, disposed, pc>>

----------------------------------------------------------------------------
(* Bounds of the model. *)

MaxBatch == 3
MaxRows == 2
MaxFields == 1
MaxRowCount == 2

----------------------------------------------------------------------------
(* JavaScript values. *)

Absent == <<>>
Some(v) == <<v>>

\* A raw null value of a row, and the falsy result of the formatter.
NullValue == "NULL"
Falsy == ""

Values == {NullValue, "42"}

\* `${x}` of a number that may be undefined.
NumberText(n) == IF n = Absent THEN "undefined" ELSE ToString(n[1])

\* `${x}` of a string that may be undefined.
StringText(s) == IF s = Absent THEN "undefined" ELSE s[1]

RECURSIVE ArrayJoin(_, _)
\* Array.prototype.join on an array of strings.
ArrayJoin(strings, sep) ==
  IF strings = <<>> THEN ""
  ELSE IF Len(strings) = 1 THEN strings[1]
  ELSE strings[1] \o sep \o ArrayJoin(Tail(strings), sep)

RECURSIVE Concat(_)
\* The concatenation of a sequence of token sequences.
Concat(parts) ==
  IF parts = <<>> THEN <<>> ELSE parts[1] \o Concat(Tail(parts))

\* String(row) of a row tuple: its values joined by commas, null as nothing.
RowText(row) ==
  ArrayJoin([i \in 1..Len(row) |-> IF row[i] = NullValue THEN "" ELSE row[i]], ",")

----------------------------------------------------------------------------
(* The data: FieldInfo and QueryResults. *)

FieldInfoAt(i) ==
  [name |-> "col" \o ToString(i),
   display_type |-> IF i % 2 = 1 THEN "int4" ELSE "jsonb",
   format |-> IF i % 2 = 1 THEN "text" ELSE "jsonb"]

FieldList(n) == [i \in 1..n |-> FieldInfoAt(i)]

Commands ==
  {"ext-message", "INSERT", "UPDATE", "CREATE", "DELETE", "EXPLAIN", "SELECT", "VACUUM"}

SeqsUpTo(S, n) == UNION {[1..k -> S] : k \in 0..n}

\* Row tuples aligned with the fields (no fields: empty tuples).
RowSets(fields) ==
  LET width == IF fields = Absent THEN 0 ELSE Len(fields[1])
  IN  {Absent} \cup {Some(rows) : rows \in SeqsUpTo([1..width -> Values], MaxRows)}

MessagesOf(command) ==
  IF command = "ext-message" THEN {Absent, Some("NOTICE: done")} ELSE {Absent}

\* Every statement result of the data model, within the bounds.
StatementResults ==
  UNION {
    UNION {
      {[command |-> c, rowCount |-> rc, fields |-> fs, rows |-> rs, message |-> m] :
         rc \in {Absent} \cup {Some(n) : n \in 0..MaxRowCount},
         rs \in RowSets(fs),
         m \in MessagesOf(c)} :
      fs \in {Absent} \cup {Some(FieldList(n)) : n \in 0..MaxFields}} :
    c \in Commands}

\* A result as the database driver delivers it: n rows of all the fields.
DriverResult(c, n) ==
  [command |-> c,
   rowCount |-> Some(n),
   fields |-> Some(FieldList(MaxFields)),
   rows |-> Some([i \in 1..n |-> [j \in 1..MaxFields |-> IF (i + j) % 2 = 0 THEN "42" ELSE NullValue]]),
   message |-> IF c = "ext-message" THEN Some("NOTICE: done") ELSE Absent]

\* A result that carries its command only.
BareResult(c) ==
  [command |-> c, rowCount |-> Absent, fields |-> Absent, rows |-> Absent, message |-> Absent]

BatchResults ==
  {DriverResult(c, MaxRows) : c \in Commands} \cup {BareResult(c) : c \in Commands}

\* The batches rendered: every single result, and every batch of driver or bare results.
Batches ==
  {<<r>> : r \in StatementResults} \cup SeqsUpTo(BatchResults, MaxBatch)

----------------------------------------------------------------------------
(* HTML tokens. *)

Tok(tag, class, text) == <<tag, class, text>>

Open(tag) == Tok(tag, "", "")
Text(s) == Tok("text", "", s)

Divider == Tok("hr", "result-divider", "")

\* The outcome of a call: a returned fragment, or a TypeError thrown.
Returned(html) == [threw |-> FALSE, html |-> html]
TypeError == [threw |-> TRUE, html |-> <<>>]

----------------------------------------------------------------------------
(* The field formatter (../common/formatting), by its contract. *)

formatFieldValue(field, value, pretty) ==
  IF value = NullValue THEN Falsy ELSE value

----------------------------------------------------------------------------
(* The generators. *)

\* The summary with the singular also used for no row.
getRowCountResultUpToOne(rowCount, text, preClass) ==
  LET rowOrRows == IF rowCount \in {Some(0), Some(1)} THEN "row" ELSE "rows"
  IN  << Tok("pre", "vscode-postgres-result vscode-postgres-result-" \o preClass, ""),
         Text(NumberText(rowCount)), Text(rowOrRows), Text(text),
         Open("/pre") >>

getRowCountResult(rowCount, text, preClass) ==
  LET rowOrRows == IF rowCount = Some(1) THEN "row" ELSE "rows"
  IN  << Tok("pre", "vscode-postgres-result vscode-postgres-result-" \o preClass, ""),
         Text(NumberText(rowCount)), Text(rowOrRows), Text(text),
         Open("/pre") >>

\* The header cell of one field.
HeaderCell(field) ==
  << Open("th"),
     Tok("div", "field-name", field.name),
     Tok("div", "field-type", field.display_type),
     Open("/th") >>

\* The data cell of one field of a row.
DataCell(field, value) ==
  LET formatted == formatFieldValue(field, value, FALSE)
  IN  << Tok("td", field.format \o "-field", IF formatted # Falsy THEN formatted ELSE "") >>

\* The numbering started at zero.
FirstRowIndexZero == 1 - 1

\* let rowIndex = 1
FirstRowIndex == 1

RECURSIVE BodyRows(_, _, _)
\* The loop over result.rows, rowIndex counting the rows written.
BodyRows(fields, rows, rowIndex) ==
  IF rows = <<>> THEN <<>>
  ELSE << Open("tr"), Tok("th", "row-header", ToString(rowIndex)) >>
       \o Concat([i \in 1..Len(fields) |-> DataCell(fields[i], rows[1][i])])
       \o << Open("/tr") >>
       \o BodyRows(fields, Tail(rows), rowIndex + 1)

\* The column headers without the index cell.
TableHeadFieldsOnly(fields) ==
  << Open("thead"), Open("tr") >>
  \o Concat([i \in 1..Len(fields) |-> HeaderCell(fields[i])])
  \o << Open("/tr"), Open("/thead") >>

\* The column headers: the index cell, then one cell per field.
TableHead(fields) ==
  << Open("thead"), Open("tr"), Open("th"), Open("/th") >>
  \o Concat([i \in 1..Len(fields) |-> HeaderCell(fields[i])])
  \o << Open("/tr"), Open("/thead") >>

generateSelectTableResult(result) ==
  IF result.fields = Absent THEN TypeError
  ELSE Returned(
         << Open("table") >>
         \o TableHead(result.fields[1])
         \o << Open("tbody") >>
         \o (IF result.rows # Absent /\ Len(result.rows[1]) # 0
             THEN BodyRows(result.fields[1], result.rows[1], FirstRowIndex)
             ELSE <<>>)
         \o << Open("/tbody"), Open("/table") >>)

\* result.fields && result.fields.length && result.rows && result.rows.length
HasFieldsAndRows(result) ==
  /\ result.fields # Absent
  /\ Len(result.fields[1]) # 0
  /\ result.rows # Absent
  /\ Len(result.rows[1]) # 0

\* A row count summary, then the table when the guard holds.
SummaryThenTable(summary, withTable, result) ==
  IF withTable
  THEN LET table == generateSelectTableResult(result)
       IN  IF table.threw THEN TypeError ELSE Returned(summary \o table.html)
  ELSE Returned(summary)

generateInsertResults(result) ==
  SummaryThenTable(getRowCountResult(result.rowCount, "inserted", "insert"),
                   HasFieldsAndRows(result), result)

generateUpdateResults(result) ==
  SummaryThenTable(getRowCountResult(result.rowCount, "updated", "update"),
                   HasFieldsAndRows(result), result)

generateCreateResults(result) ==
  Returned(getRowCountResult(result.rowCount, "created", "create"))

generateDeleteResults(result) ==
  SummaryThenTable(getRowCountResult(result.rowCount, "deleted", "delete"),
                   HasFieldsAndRows(result), result)

generateExplainResult(result) ==
  IF result.rows = Absent THEN TypeError
  ELSE Returned(
         << Tok("pre", "vscode-postgres-result vscode-postgres-result-explain", ""),
            Text(ArrayJoin([i \in 1..Len(result.rows[1]) |-> RowText(result.rows[1][i])], "\n")),
            Open("/pre") >>)

\* JSON.stringify of a result: its defined properties.
JSONstringifyResult(result) ==
  LET quoted(s) == "\"" \o s \o "\""
      valueJson(v) == IF v = NullValue THEN "null" ELSE quoted(v)
      fieldJson(f) == "{\"name\":" \o quoted(f.name)
                      \o ",\"display_type\":" \o quoted(f.display_type)
                      \o ",\"format\":" \o quoted(f.format) \o "}"
      rowJson(row) == "[" \o ArrayJoin([i \in 1..Len(row) |-> valueJson(row[i])], ",") \o "]"
      props ==
        << "\"command\":" \o quoted(result.command) >>
        \o (IF result.rowCount = Absent THEN <<>>
            ELSE << "\"rowCount\":" \o ToString(result.rowCount[1]) >>)
        \o (IF result.fields = Absent THEN <<>>
            ELSE << "\"fields\":[" \o ArrayJoin([i \in 1..Len(result.fields[1]) |->
                                                   fieldJson(result.fields[1][i])], ",") \o "]" >>)
        \o (IF result.rows = Absent THEN <<>>
            ELSE << "\"rows\":[" \o ArrayJoin([i \in 1..Len(result.rows[1]) |->
                                                 rowJson(result.rows[1][i])], ",") \o "]" >>)
        \o (IF result.message = Absent THEN <<>>
            ELSE << "\"message\":" \o quoted(result.message[1]) >>)
  IN  "{" \o ArrayJoin(props, ",") \o "}"

generateGenericResult(result) ==
  Returned(
    << Tok("pre", "vscode-postgres-result vscode-postgres-result-generic", ""),
       Text(JSONstringifyResult(result)),
       Open("/pre") >>)

generateMessage(result) ==
  Returned(
    << Tok("pre", "vscode-postgres-result vscode-postgres-result-message", ""),
       Text(StringText(result.message)),
       Open("/pre") >>)

generateSelectResult(result) ==
  SummaryThenTable(getRowCountResult(result.rowCount, "returned", "select"), TRUE, result)

----------------------------------------------------------------------------
(* The dispatcher. *)

\* switch (result.command)
GenerateByCommand(result) ==
  CASE result.command = "ext-message" -> generateMessage(result)
    [] result.command = "INSERT" -> generateInsertResults(result)
    [] result.command = "UPDATE" -> generateUpdateResults(result)
    [] result.command = "CREATE" -> generateCreateResults(result)
    [] result.command = "DELETE" -> generateDeleteResults(result)
    [] result.command = "EXPLAIN" -> generateExplainResult(result)
    [] result.command = "SELECT" -> generateSelectResult(result)
    [] OTHER -> generateGenericResult(result)

\* The divider written before every fragment.
DividerAlways(first) == << Divider >>

\* if (!first) html += '<hr class="result-divider" />'
DividerUnlessFirst(first) == IF ~first THEN << Divider >> ELSE <<>>

\* The fragment put in front of what is already written.
PrependFragment(html, divider, fragment) == fragment \o divider \o html

\* html += <divider>; html += <fragment>
AppendFragment(html, divider, fragment) == html \o divider \o fragment

RECURSIVE ResultsLoop(_, _, _, _)
\* for (const result of results), at the k-th result.
ResultsLoop(batch, k, html, first) ==
  IF k > Len(batch) THEN Returned(html)
  ELSE LET fragment == GenerateByCommand(batch[k])
       IN  IF fragment.threw THEN TypeError
           ELSE ResultsLoop(batch, k + 1,
                            AppendFragment(html, DividerUnlessFirst(first), fragment.html),
                            FALSE)

getResultsTables(batch) == ResultsLoop(batch, 1, <<>>, TRUE)

----------------------------------------------------------------------------
(* The rendering of a batch. *)

Pending == [status |-> "pending", html |-> <<>>]

\* getResultsTables(results) returns its fragment.
RenderReturns ==
  /\ out.status = "pending"
  /\ ~getResultsTables(results).threw
  /\ out' = [status |-> "returned", html |-> getResultsTables(results).html]
  /\ UNCHANGED <<results, htmlVars, disposeVars>>

\* getResultsTables(results) throws.
RenderThrows ==
  /\ out.status = "pending"
  /\ getResultsTables(results).threw
  /\ out' = [status |-> "thrown", html |-> <<>>]
  /\ UNCHANGED <<results, htmlVars, disposeVars>>

HtmlIdle == now = 0 /\ document = <<>> /\ nonces = <<>>
DisposeIdle == disposables = <<>> /\ held = <<>> /\ disposed = <<>> /\ pc = "idle"

Init ==
  /\ results \in Batches
  /\ out = Pending
  /\ HtmlIdle
  /\ DisposeIdle

Next == RenderReturns \/ RenderThrows

Spec == Init /\ [][Next]_vars

----------------------------------------------------------------------------
(* Reading a rendered fragment back. *)

IsReturned == out.status = "returned"

\* The number of tokens of html that satisfy Test.
CountTokens(html, Test(_)) == Cardinality({i \in 1..Len(html) : Test(html[i])})

IsDivider(token) == token = Divider

\* The positions of the dividers of html, in increasing order.
DividerPositions(html) ==
  LET where == {i \in 1..Len(html) : IsDivider(html[i])}
      rank(i) == Cardinality({j \in where : j <= i})
  IN  [k \in 1..Cardinality(where) |-> CHOOSE i \in where : rank(i) = k]

\* The pieces of html between its dividers.
SplitAtDividers(html) ==
  LET at == DividerPositions(html)
      n == Len(at)
      from(k) == IF k = 1 THEN 1 ELSE at[k - 1] + 1
      to(k) == IF k = n + 1 THEN Len(html) ELSE at[k] - 1
  IN  [k \in 1..(n + 1) |-> SubSeq(html, from(k), to(k))]

\* The first position of a token with this tag, 0 when there is none.
IndexOfTag(html, tag) ==
  IF \E i \in 1..Len(html) : html[i][1] = tag
  THEN CHOOSE i \in 1..Len(html) :
         html[i][1] = tag /\ \A j \in 1..(i - 1) : html[j][1] # tag
  ELSE 0

\* The tokens from the first openTag to the first closeTag, both included.
Element(html, openTag, closeTag) ==
  IF IndexOfTag(html, openTag) = 0 \/ IndexOfTag(html, closeTag) = 0 THEN <<>>
  ELSE SubSeq(html, IndexOfTag(html, openTag), IndexOfTag(html, closeTag))

TableCount(html) == Cardinality({i \in 1..Len(html) : html[i][1] = "table"})

\* The header cells of the table of html: the th tokens of its thead.
HeaderCellCount(html) ==
  LET head == Element(html, "thead", "/thead")
  IN  Cardinality({i \in 1..Len(head) : head[i][1] = "th"})

\* The body rows of the table of html: the tr tokens of its tbody.
BodyRowCount(html) ==
  LET body == Element(html, "tbody", "/tbody")
  IN  Cardinality({i \in 1..Len(body) : body[i][1] = "tr"})

\* The texts of the index cells of the body rows, in row order.
RowHeaderTexts(html) ==
  LET body == Element(html, "tbody", "/tbody")
      cells == SelectSeq(body, LAMBDA token : token[1] = "th" /\ token[2] = "row-header")
  IN  [i \in 1..Len(cells) |-> cells[i][3]]

\* The class of the block each command's generator opens its fragment with (spec 4.1).
BlockClassOf(command) ==
  "vscode-postgres-result vscode-postgres-result-" \o
  (CASE command = "ext-message" -> "message"
     [] command = "INSERT" -> "insert"
     [] command = "UPDATE" -> "update"
     [] command = "CREATE" -> "create"
     [] command = "DELETE" -> "delete"
     [] command = "EXPLAIN" -> "explain"
     [] command = "SELECT" -> "select"
     [] OTHER -> "generic")

\* piece is a fragment written for result: it opens with the block of its command.
IsFragmentOf(piece, result) ==
  /\ Len(piece) >= 3
  /\ piece[1] = Tok("pre", BlockClassOf(result.command), "")

RowCountLength(result) == IF result.rows = Absent THEN 0 ELSE Len(result.rows[1])
FieldCount(result) == IF result.fields = Absent THEN 0 ELSE Len(result.fields[1])

SummaryCommands == {"INSERT", "UPDATE", "CREATE", "DELETE", "SELECT"}

----------------------------------------------------------------------------
(* The claims about getResultsTables and its generators. *)

\* C1: a fragment returned for a batch of N >= 1 results holds exactly N - 1
\* dividers; none is the first or the last token, and the k-th piece between
\* them is the fragment of the k-th result.
C1_DividersBetweenFragments ==
  (IsReturned /\ Len(results) >= 1) =>
    LET pieces == SplitAtDividers(out.html)
    IN  /\ CountTokens(out.html, IsDivider) = Len(results) - 1
        /\ ~IsDivider(out.html[1])
        /\ ~IsDivider(out.html[Len(out.html)])
        /\ \A k \in 1..Len(pieces) : k <= Len(results) /\ IsFragmentOf(pieces[k], results[k])

C1_Witness ==
  /\ IsReturned
  /\ Len(results) = 3
  /\ CountTokens(out.html, IsDivider) = 2

\* C2 (as claimed): getResultsTables never throws, and the fragment of a
\* single result is never empty.
C2_NoErrorPath ==
  /\ out.status # "thrown"
  /\ (IsReturned /\ Len(results) = 1) => out.html # <<>>

\* C5: the fragment of an INSERT, UPDATE or DELETE result with fields and rows
\* holds exactly one table, with fields.length + 1 header cells and
\* rows.length body rows.
C5_ReturningTable ==
  IsReturned =>
    \A k \in 1..Len(results) :
      (results[k].command \in {"INSERT", "UPDATE", "DELETE"} /\ HasFieldsAndRows(results[k])) =>
        LET piece == SplitAtDividers(out.html)[k]
        IN  /\ TableCount(piece) = 1
            /\ HeaderCellCount(piece) = Len(results[k].fields[1]) + 1
            /\ BodyRowCount(piece) = Len(results[k].rows[1])

C5_Witness ==
  /\ IsReturned
  /\ Len(results) = 1
  /\ results[1].command = "DELETE"
  /\ HasFieldsAndRows(results[1])
  /\ Len(results[1].rows[1]) = 2
  /\ TableCount(out.html) = 1

\* The fragment of a SELECT result: the summary, then a table with the index
\* cell and one header cell per field, and one body row per row.
IsSelectFragment(piece, result) ==
  /\ Len(piece) > 5
  /\ piece[1] = Tok("pre", BlockClassOf("SELECT"), "")
  /\ piece[5] = Open("/pre")
  /\ piece[6] = Open("table")
  /\ piece[Len(piece)] = Open("/table")
  /\ TableCount(piece) = 1
  /\ HeaderCellCount(piece) = FieldCount(result) + 1
  /\ BodyRowCount(piece) = RowCountLength(result)

\* C6 (as claimed): every SELECT result renders as the summary followed by a
\* table, with an empty body when rows is empty or absent.
C6_SelectAlwaysTable ==
  (out.status # "pending" /\ Len(results) = 1 /\ results[1].command = "SELECT") =>
    /\ IsReturned
    /\ IsSelectFragment(out.html, results[1])

\* C7: in every table the index cells of the body rows read 1, 2, ...,
\* rows.length, whatever the values, and start again at 1 in every table of a
\* batch.
C7_RowNumbering ==
  IsReturned =>
    \A k \in 1..Len(results) :
      LET piece == SplitAtDividers(out.html)[k]
      IN  TableCount(piece) > 0 =>
            RowHeaderTexts(piece) = [i \in 1..RowCountLength(results[k]) |-> ToString(i)]

C7_Witness ==
  /\ IsReturned
  /\ Len(results) = 2
  /\ \A k \in 1..2 :
       /\ TableCount(SplitAtDividers(out.html)[k]) = 1
       /\ RowHeaderTexts(SplitAtDividers(out.html)[k]) = <<"1", "2">>
  /\ results[1].rows[1][1] # results[1].rows[1][2]

\* C8: the fragment of a batch is, in input order, the fragments that each
\* result alone renders to, each opening with the block of its command, with
\* a divider between two of them.
C8_FragmentsInInputOrder ==
  IsReturned =>
    LET pieces == SplitAtDividers(out.html)
    IN  IF results = <<>> THEN out.html = <<>>
        ELSE /\ Len(pieces) = Len(results)
             /\ \A k \in 1..Len(results) :
                  /\ pieces[k] = getResultsTables(<<results[k]>>).html
                  /\ IsFragmentOf(pieces[k], results[k])

C8_Witness ==
  /\ IsReturned
  /\ results = << DriverResult("SELECT", MaxRows), DriverResult("ext-message", MaxRows) >>
  /\ out.html = generateSelectResult(results[1]).html
                \o << Divider >>
                \o generateMessage(results[2]).html

\* C9: a row count summary says "row" exactly when rowCount is 1, and "rows"
\* for every other rowCount.
C9_Pluralization ==
  IsReturned =>
    \A k \in 1..Len(results) :
      results[k].command \in SummaryCommands =>
        LET piece == SplitAtDividers(out.html)[k]
        IN  /\ piece[2] = Text(NumberText(results[k].rowCount))
            /\ piece[3] = Text(IF results[k].rowCount = Some(1) THEN "row" ELSE "rows")
            /\ piece[5] = Open("/pre")

C9_Witness ==
  /\ IsReturned
  /\ Len(results) = 1
  /\ results[1].command = "UPDATE"
  /\ results[1].rowCount = Some(1)
  /\ out.html[3] = Text("row")

----------------------------------------------------------------------------
(* The state embedded in the document: JSON text as a sequence of           *)
(* characters.                                                              *)

MaxPieces == 2

DQ == "\""
BS == "\\"

\* The text &quot;
QuotEntity == << "&", "q", "u", "o", "t", ";" >>

\* A JavaScript value: its type, its number (a boolean: 0 or 1; an object: the
\* number of its properties) and its string (an object: the value of its
\* property k).
JsValue(t, n, s) == [t |-> t, n |-> n, s |-> s]

JsUndefined == JsValue("undefined", 0, <<>>)
JsNull == JsValue("null", 0, <<>>)
JsBoolean(b) == JsValue("boolean", IF b THEN 1 ELSE 0, <<>>)
JsNumber(n) == JsValue("number", n, <<>>)
JsString(s) == JsValue("string", 0, s)
JsEmptyObject == JsValue("object", 0, <<>>)
JsObject(s) == JsValue("object", 1, s)
JsSyntaxError == JsValue("SyntaxError", 0, <<>>)

\* The strings of the states: up to MaxPieces pieces, one after the other.
StatePieces == { <<"a">>, <<DQ>>, <<BS>>, <<"&">>, QuotEntity }
StateStrings == {Concat(pieces) : pieces \in SeqsUpTo(StatePieces, MaxPieces)}

\* The state values a caller passes.
StateValues ==
  {JsUndefined, JsNull, JsBoolean(FALSE), JsBoolean(TRUE), JsNumber(0), JsNumber(1), JsEmptyObject}
  \cup {JsString(s) : s \in StateStrings}
  \cup {JsObject(s) : s \in StateStrings}

\* The values JSON.stringify turns into text.
IsSerializable(value) == value.t \in {"null", "boolean", "number", "string", "object"}

\* The truthiness of a value: what `state || {}` tests.
IsTruthy(value) ==
  CASE value.t = "object" -> TRUE
    [] value.t = "string" -> value.s # <<>>
    [] value.t = "number" -> value.n # 0
    [] value.t = "boolean" -> value.n = 1
    [] OTHER -> FALSE

RECURSIVE JsonEscape(_)
\* The characters of a string inside a JSON string literal.
JsonEscape(s) ==
  IF s = <<>> THEN <<>>
  ELSE (IF s[1] \in {DQ, BS} THEN << BS, s[1] >> ELSE << s[1] >>) \o JsonEscape(Tail(s))

JsonQuote(s) == << DQ >> \o JsonEscape(s) \o << DQ >>

\* JSON.stringify(value), for a serializable value.
JSONstringify(value) ==
  CASE value.t = "null" -> << "n", "u", "l", "l" >>
    [] value.t = "boolean" ->
         IF value.n = 1 THEN << "t", "r", "u", "e" >> ELSE << "f", "a", "l", "s", "e" >>
    [] value.t = "number" -> << ToString(value.n) >>
    [] value.t = "string" -> JsonQuote(value.s)
    [] value.t = "object" ->
         IF value.n = 0 THEN << "{", "}" >>
         ELSE << "{" >> \o JsonQuote(<< "k" >>) \o << ":" >> \o JsonQuote(value.s) \o << "}" >>

RECURSIVE ReplaceQuotes(_)
\* text.replace(/"/g, '&quot;')
ReplaceQuotes(text) ==
  IF text = <<>> THEN <<>>
  ELSE (IF text[1] = DQ THEN QuotEntity ELSE << text[1] >>) \o ReplaceQuotes(Tail(text))

\* data-state="${JSON.stringify(state || {}).replace(/"/g, '&quot;')}"
DataStateAttribute(state) ==
  ReplaceQuotes(JSONstringify(IF IsTruthy(state) THEN state ELSE JsEmptyObject))

RECURSIVE ReverseQuotes(_)
\* The reader's side: every &quot; of the attribute text replaced by a double quote.
ReverseQuotes(text) ==
  IF text = <<>> THEN <<>>
  ELSE IF Len(text) >= 6 /\ SubSeq(text, 1, 6) = QuotEntity
       THEN << DQ >> \o ReverseQuotes(SubSeq(text, 7, Len(text)))
       ELSE << text[1] >> \o ReverseQuotes(Tail(text))

RECURSIVE JsonUnescape(_)
\* The string a JSON string literal's inside stands for; ok is FALSE when it
\* holds a bare double quote or a broken escape.
JsonUnescape(body) ==
  IF body = <<>> THEN [ok |-> TRUE, s |-> <<>>]
  ELSE IF body[1] = DQ THEN [ok |-> FALSE, s |-> <<>>]
  ELSE IF body[1] = BS
       THEN IF Len(body) >= 2 /\ body[2] \in {DQ, BS}
            THEN LET rest == JsonUnescape(SubSeq(body, 3, Len(body)))
                 IN  [ok |-> rest.ok, s |-> << body[2] >> \o rest.s]
            ELSE [ok |-> FALSE, s |-> <<>>]
       ELSE LET rest == JsonUnescape(Tail(body))
            IN  [ok |-> rest.ok, s |-> << body[1] >> \o rest.s]

\* The string of a JSON string literal.
JsonStringLiteral(text) ==
  IF Len(text) >= 2 /\ text[1] = DQ /\ text[Len(text)] = DQ
  THEN JsonUnescape(SubSeq(text, 2, Len(text) - 1))
  ELSE [ok |-> FALSE, s |-> <<>>]

\* JSON.parse(text): the value, or the SyntaxError it throws.
JSONparse(text) ==
  LET keyPart == << "{" >> \o JsonQuote(<< "k" >>) \o << ":" >>
  IN  CASE text = << "n", "u", "l", "l" >> -> JsNull
        [] text = << "t", "r", "u", "e" >> -> JsBoolean(TRUE)
        [] text = << "f", "a", "l", "s", "e" >> -> JsBoolean(FALSE)
        [] text = << "0" >> -> JsNumber(0)
        [] text = << "1" >> -> JsNumber(1)
        [] text = << "{", "}" >> -> JsEmptyObject
        [] Len(text) >= 1 /\ text[1] = DQ ->
             IF JsonStringLiteral(text).ok THEN JsString(JsonStringLiteral(text).s)
             ELSE JsSyntaxError
        [] /\ Len(text) > Len(keyPart) + 1
           /\ SubSeq(text, 1, Len(keyPart)) = keyPart
           /\ text[Len(text)] = "}" ->
             LET literal == JsonStringLiteral(SubSeq(text, Len(keyPart) + 1, Len(text) - 1))
             IN  IF literal.ok THEN JsObject(literal.s) ELSE JsSyntaxError
        [] OTHER -> JsSyntaxError

----------------------------------------------------------------------------
(* generateResultsHtml. *)

MaxCalls == 2
MaxTicks == 2
StartTime == 998

MillisecondsPerSecond == 1000

\* getExtensionResourcePath('index.js', webview)
PageScript == "media/index.js"

\* new Date().getTime() + '' + new Date().getMilliseconds()
NonceOf(firstRead, secondRead) ==
  ToString(firstRead) \o "" \o ToString(secondRead % MillisecondsPerSecond)

\* getStyles(nonce): the style block, with the rule of the JSON fields when
\* the prettyPrintJSONfields option is set.
getStyles(nonce, prettyPrintJSONfields) ==
  [nonce |-> nonce, jsonFieldRule |-> prettyPrintJSONfields]

\* The batches the documents are made for.
DocumentBatches == { << BareResult("CREATE") >>, << BareResult("EXPLAIN") >> }

\* The clock moves on between two calls.
Tick ==
  /\ now < StartTime + MaxTicks
  /\ now' = now + 1
  /\ UNCHANGED <<document, nonces, renderVars, disposeVars>>

\* generateResultsHtml(webview, sourceUri, batch, state) returns its document;
\* the clock may move by elapsed between the two readings of the nonce.
GenerateResultsHtml(state, batch, prettyPrintJSONfields, elapsed) ==
  LET nonce == NonceOf(now, now + elapsed)
  IN  /\ Len(nonces) < MaxCalls
      /\ now + elapsed <= StartTime + MaxTicks
      /\ ~getResultsTables(batch).threw
      /\ now' = now + elapsed
      /\ document' = Some([state |-> state,
                           dataSettings |-> "",
                           dataState |-> DataStateAttribute(state),
                           script |-> [src |-> PageScript, nonce |-> nonce],
                           style |-> getStyles(nonce, prettyPrintJSONfields),
                           body |-> getResultsTables(batch).html])
      /\ nonces' = Append(nonces, nonce)
      /\ UNCHANGED <<renderVars, disposeVars>>

\* generateResultsHtml throws what getResultsTables throws: no document.
GenerateResultsHtmlThrows(batch, elapsed) ==
  /\ Len(nonces) < MaxCalls
  /\ now + elapsed <= StartTime + MaxTicks
  /\ getResultsTables(batch).threw
  /\ now' = now + elapsed
  /\ UNCHANGED <<document, nonces, renderVars, disposeVars>>

RenderIdle == results = <<>> /\ out = Pending

InitHtml ==
  /\ now = StartTime
  /\ document = Absent
  /\ nonces = <<>>
  /\ RenderIdle
  /\ DisposeIdle

NextHtml ==
  \/ Tick
  \/ \E state \in StateValues, batch \in DocumentBatches,
        prettyPrintJSONfields \in BOOLEAN, elapsed \in 0..1 :
       GenerateResultsHtml(state, batch, prettyPrintJSONfields, elapsed)
  \/ \E batch \in DocumentBatches, elapsed \in 0..1 :
       GenerateResultsHtmlThrows(batch, elapsed)

SpecHtml == InitHtml /\ [][NextHtml]_vars

\* C3 (as claimed): the data-state text of a document, its escaped quotes
\* reversed and then parsed, is the state the caller passed, for every
\* serializable state.
C3_StateRoundTrip ==
  (document # Absent /\ IsSerializable(document[1].state)) =>
    JSONparse(ReverseQuotes(document[1].dataState)) = document[1].state

\* C4 (as claimed): any two calls of generateResultsHtml put different nonces
\* in their documents.
C4_NonceUnique ==
  \A i, j \in 1..Len(nonces) : i # j => nonces[i] # nonces[j]

----------------------------------------------------------------------------
(* disposeAll. *)

MaxDisposables == 2
MaxLength == 3

\* An entry of the array that is no disposable.
UndefinedItem == "undefined"

Disposables == {"disposable" \o ToString(i) : i \in 1..MaxDisposables}

\* The arrays disposeAll is called with.
DisposableArrays == SeqsUpTo(Disposables \cup {UndefinedItem}, MaxLength)

\* The first entry taken instead of the last.
ArrayShift(array) ==
  [item |-> array[1], rest |-> Tail(array)]

\* disposables.pop(): the last entry, and the array without it.
ArrayPop(array) ==
  [item |-> array[Len(array)], rest |-> SubSeq(array, 1, Len(array) - 1)]

\* while (disposables.length): the popped item is falsy, continue.
PopFalsyItem ==
  /\ pc = "loop"
  /\ Len(disposables) # 0
  /\ ArrayPop(disposables).item = UndefinedItem
  /\ disposables' = ArrayPop(disposables).rest
  /\ UNCHANGED <<held, disposed, pc, renderVars, htmlVars>>

\* The popped item is a disposable and its dispose() returns.
PopAndDispose ==
  /\ pc = "loop"
  /\ Len(disposables) # 0
  /\ ArrayPop(disposables).item # UndefinedItem
  /\ disposables' = ArrayPop(disposables).rest
  /\ disposed' = Append(disposed, ArrayPop(disposables).item)
  /\ UNCHANGED <<held, pc, renderVars, htmlVars>>

\* The popped item is a disposable and its dispose() throws: so does disposeAll.
PopAndDisposeThrows ==
  /\ pc = "loop"
  /\ Len(disposables) # 0
  /\ ArrayPop(disposables).item # UndefinedItem
  /\ disposables' = ArrayPop(disposables).rest
  /\ disposed' = Append(disposed, ArrayPop(disposables).item)
  /\ pc' = "thrown"
  /\ UNCHANGED <<held, renderVars, htmlVars>>

\* disposables.length is 0: the loop ends and disposeAll returns.
LoopExit ==
  /\ pc = "loop"
  /\ Len(disposables) = 0
  /\ pc' = "returned"
  /\ UNCHANGED <<disposables, held, disposed, renderVars, htmlVars>>

InitDispose ==
  /\ disposables \in DisposableArrays
  /\ held = disposables
  /\ disposed = <<>>
  /\ pc = "loop"
  /\ RenderIdle
  /\ HtmlIdle

NextDispose == PopFalsyItem \/ PopAndDispose \/ PopAndDisposeThrows \/ LoopExit

\* The call runs on: a synchronous loop is not suspended.
SpecDispose == InitDispose /\ [][NextDispose]_vars /\ WF_vars(NextDispose)

Reverse(seq) == [i \in 1..Len(seq) |-> seq[Len(seq) + 1 - i]]

\* C10: disposeAll ends, and when it returns the array is empty and dispose
\* was called once for each disposable entry the array held, the last entry
\* first; the other entries were dropped without a call.
C10_DisposeAll ==
  /\ <>(pc \in {"returned", "thrown"})
  /\ [](pc = "returned" =>
          /\ disposables = <<>>
          /\ disposed = Reverse(SelectSeq(held, LAMBDA item : item # UndefinedItem)))

C10_Witness ==
  /\ pc = "returned"
  /\ held = << "disposable1", UndefinedItem, "disposable2" >>
  /\ disposed = << "disposable2", "disposable1" >>

====
